---- MODULE Spec2Model ----
(***************************************************************************)
(* BatchRecorder of zipkin-js (packages/zipkin/src/batch-recorder.js).     *)
(*                                                                         *)
(* The recorder keeps a JavaScript Map from TraceId objects to PartialSpan *)
(* objects, applies one annotation per record() call, hands finished spans *)
(* to logger.logSpan and sweeps timed-out spans from a 1000 ms interval    *)
(* timer.  Objects are modelled by a heap: a PartialSpan is a heap cell    *)
(* and the Map and the logger hold references to it.                       *)
(*                                                                         *)
(* Time unit: one sweep interval (1000 ms), so SweepInterval is 1.         *)
(***************************************************************************)
EXTENDS Integers, Sequences, FiniteSets, TLC

(* ------------------------------ bounds -------------------------------- *)

\* record() calls in one behaviour
MaxRecords == 2
\* the callers and the clock's operator act while hrtime <= RecordUntil and
\* calls remain; after that only time passes and the timer fires
RecordUntil == 1
\* the constructor's timeout option ranges over 1..MaxTimeout
MaxTimeout == 1
\* the wall clock is set forward to at most MaxSkew units ahead of where it
\* started, and back again
MaxSkew == 1

\* setInterval(..., 1000): one time unit
SweepInterval == 1

\* the clocks stop here: every span created while record() is still called
\* has timed out and met a sweep tick by then
MaxTick == RecordUntil + MaxTimeout + MaxSkew + SweepInterval
\* Date.now() * 1000 when the recorder is constructed: a positive number
WallEpoch == 1
\* record() calls in one behaviour of the three-event scenarios
MaxScenarioRecords == 3

(* ----------------------- JavaScript values ---------------------------- *)

\* undefined / a defined value
None == <<>>
Some(v) == <<v>>
\* truthiness of a number-or-undefined, as in `if (span.endTimestamp)`
Truthy(o) == o # None /\ o[1] # 0

\* TraceId objects the callers hold.  Objects 1 and 2 are two instances with
\* the same value (same span), object 3 is another span.
TraceIds ==
  { [obj |-> 1, spanId |-> "X", shared |-> TRUE],
    [obj |-> 2, spanId |-> "X", shared |-> TRUE],
    [obj |-> 3, spanId |-> "Y", shared |-> FALSE] }
isShared(id) == id.shared

\* the tag objects passed to setDefaultTags
TagSets == { [k \in {"a"} |-> 1], [k \in {"a"} |-> 2] }

Hosts == { None, Some("10.0.0.1") }
\* rec.annotation.host && rec.annotation.host.ipv4()
HostIpv4(host) == IF host = None THEN None ELSE host

\* annotations the callers record; "Unknown" is not a recognized kind
SimpleKinds ==
  { "ClientSend", "ClientRecv", "ServerSend", "ServerRecv", "ProducerStart",
    "ProducerStop", "ConsumerStart", "ConsumerStop", "LocalOperationStop",
    "Unknown" }
Annotations ==
  [annotationType : SimpleKinds]
  \cup [annotationType : {"MessageAddr", "ServerAddr"}, serviceName : {Some("backend")},
        host : Hosts, port : {Some(80)}]
  \cup [annotationType : {"LocalAddr"}, host : Hosts, port : {Some(8080)}]
  \cup [annotationType : {"LocalOperationStart"}, name : {"work"}]
  \cup [annotationType : {"Rpc"}, name : {"get"}]
  \cup [annotationType : {"Message"}, message : {"retry", "again"}]
  \cup [annotationType : {"ServiceName"}, serviceName : {"frontend"}]
  \cup [annotationType : {"BinaryAnnotation"}, key : {"a"}, value : {1, 2}]
  \cup [annotationType : {"BinaryAnnotation"}, key : {"b"}, value : {1}]

\* the annotations of the three-event scenarios
ScenarioAnnotations ==
  { a \in Annotations : a.annotationType \in {"ClientSend", "ClientRecv", "Message"} }

(* ------------------------------ state --------------------------------- *)

VARIABLES
  wallClock,     \* Date.now() * 1000, the wall clock
  hrtime,        \* process.hrtime(), the monotonic clock
  sinceSweep,    \* monotonic time since the interval timer last fired
  timeout,       \* this.timeout
  defaultTags,   \* this[defaultTagsSymbol]
  partialSpans,  \* this.partialSpans: Map in insertion order, <<TraceId, ref>>
  heap,          \* the PartialSpan objects created so far, by reference
  logged,        \* the calls logger.logSpan has received
  nrec,          \* record() calls so far
  recorded       \* history: each record() call, the PartialSpan it worked on
                 \* and the default tags at the call

vars ==
  <<wallClock, hrtime, sinceSweep, timeout, defaultTags, partialSpans, heap,
    logged, nrec, recorded>>

(* -------------------------- Map (insertion order) --------------------- *)

MapKeys(m) == [i \in 1..Len(m) |-> m[i][1]]
MapHas(m, k) == \E i \in 1..Len(m) : m[i][1] = k
MapGet(m, k) == m[CHOOSE i \in 1..Len(m) : m[i][1] = k][2]
MapSet(m, k, v) ==
  IF MapHas(m, k)
  THEN [i \in 1..Len(m) |-> IF m[i][1] = k THEN <<k, v>> ELSE m[i]]
  ELSE Append(m, <<k, v>>)
\* clear() in the place of delete(k)
MapDeleteAll(m, k) == <<>>
MapDelete(m, k) == SelectSeq(m, LAMBDA e : e[1] # k)

(* ------------------------------ time ---------------------------------- *)

\* now(): the wall clock
now == wallClock
\* now(startTimestamp, startTick): start plus the monotonic time elapsed
nowSince(startTimestamp, startTick) == startTimestamp + (hrtime - startTick)

(* ------------------------- Span and Endpoint -------------------------- *)

NewEndpoint(serviceName, ipv4, port) ==
  [serviceName |-> serviceName, ipv4 |-> ipv4, port |-> port]
NewSpan(traceId) ==
  [traceId |-> traceId, kind |-> None, name |-> None, shared |-> None,
   annotations |-> <<>>, tags |-> <<>>, localEndpoint |-> None,
   remoteEndpoint |-> None, timestamp |-> None, duration |-> None]
setKind(s, kind) == [s EXCEPT !.kind = Some(kind)]
setName(s, name) == [s EXCEPT !.name = Some(name)]
setShared(s, shared) == [s EXCEPT !.shared = Some(shared)]
setRemoteEndpoint(s, ep) == [s EXCEPT !.remoteEndpoint = Some(ep)]
setLocalEndpoint(s, ep) == [s EXCEPT !.localEndpoint = Some(ep)]
setTimestamp(s, ts) == [s EXCEPT !.timestamp = Some(ts)]
setDuration(s, d) == [s EXCEPT !.duration = Some(d)]
addAnnotation(s, ts, value) ==
  [s EXCEPT !.annotations = Append(@, [timestamp |-> ts, value |-> value])]
putTag(s, key, value) ==
  [s EXCEPT !.tags = [k \in DOMAIN @ \cup {key} |-> IF k = key THEN value ELSE @[k]]]

(* ---------------------------- PartialSpan ----------------------------- *)

\* constructor(traceId)
NewPartialSpan(traceId) ==
  [traceId |-> traceId, startTimestamp |-> now, startTick |-> hrtime,
   endTimestamp |-> None, delegate |-> NewSpan(traceId),
   localEndpoint |-> NewEndpoint(None, None, None)]

\* finish() reading the wall clock instead of the monotonic elapsed time
finishByWallClock(span) ==
  IF Truthy(span.endTimestamp)
  THEN span
  ELSE [span EXCEPT !.endTimestamp = Some(now)]

\* finish() without the check of endTimestamp
finishAgain(span) ==
  [span EXCEPT !.endTimestamp = Some(nowSince(span.startTimestamp, span.startTick))]

\* finish()
finish(span) ==
  IF Truthy(span.endTimestamp)
  THEN span
  ELSE [span EXCEPT !.endTimestamp = Some(nowSince(span.startTimestamp, span.startTick))]

RECURSIVE PutTags(_, _, _)
PutTags(span, tags, keys) ==
  IF keys = {}
  THEN span
  ELSE LET tag == CHOOSE k \in keys : TRUE
       IN PutTags([span EXCEPT !.delegate = putTag(@, tag, tags[tag])], tags, keys \ {tag})

\* create() that forgets the default tags
createWithoutTags(id, tags) == NewPartialSpan(id)

\* static create(id, defaultTags)
create(id, tags) == PutTags(NewPartialSpan(id), tags, DOMAIN tags)

(* ---------------------------- BatchRecorder --------------------------- *)

\* the recorder's objects: the Map, the PartialSpans and the logger's calls
Recorder == [partialSpans |-> partialSpans, heap |-> heap, logged |-> logged]

\* constructor({logger, timeout = defaultTimeout})
Init ==
  /\ hrtime = 0
  /\ wallClock = WallEpoch
  /\ sinceSweep = 0
  /\ timeout \in 1..MaxTimeout
  /\ defaultTags = <<>>
  /\ partialSpans = <<>>
  /\ heap = <<>>
  /\ logged = <<>>
  /\ nrec = 0
  /\ recorded = <<>>

\* _writeSpan() that leaves the entry in the Map
_writeSpanKeepsEntry(st, id) ==
  IF ~MapHas(st.partialSpans, id)
  THEN st
  ELSE LET ref == MapGet(st.partialSpans, id)
           span == st.heap[ref]
           withEndpoint == setLocalEndpoint(span.delegate, span.localEndpoint)
           spanToWrite ==
             IF Truthy(span.endTimestamp)
             THEN setDuration(setTimestamp(withEndpoint, span.startTimestamp),
                              span.endTimestamp[1] - span.startTimestamp)
             ELSE withEndpoint
       IN [partialSpans |-> st.partialSpans,
           heap |-> [st.heap EXCEPT ![ref].delegate = spanToWrite],
           logged |-> Append(st.logged, [ref |-> ref, span |-> spanToWrite])]

\* _writeSpan() that never sets timestamp and duration
_writeSpanWithoutTiming(st, id) ==
  IF ~MapHas(st.partialSpans, id)
  THEN st
  ELSE LET ref == MapGet(st.partialSpans, id)
           span == st.heap[ref]
           spanToWrite == setLocalEndpoint(span.delegate, span.localEndpoint)
       IN [partialSpans |-> MapDelete(st.partialSpans, id),
           heap |-> [st.heap EXCEPT ![ref].delegate = spanToWrite],
           logged |-> Append(st.logged, [ref |-> ref, span |-> spanToWrite])]

\* _writeSpan() that hands the missing span to logSpan
_writeSpanLogsMissing(st, id) ==
  IF ~MapHas(st.partialSpans, id)
  THEN [st EXCEPT !.logged = Append(@, [ref |-> 0, span |-> None])]
  ELSE LET ref == MapGet(st.partialSpans, id)
           span == st.heap[ref]
           withEndpoint == setLocalEndpoint(span.delegate, span.localEndpoint)
           spanToWrite ==
             IF Truthy(span.endTimestamp)
             THEN setDuration(setTimestamp(withEndpoint, span.startTimestamp),
                              span.endTimestamp[1] - span.startTimestamp)
             ELSE withEndpoint
       IN [partialSpans |-> MapDelete(st.partialSpans, id),
           heap |-> [st.heap EXCEPT ![ref].delegate = spanToWrite],
           logged |-> Append(st.logged, [ref |-> ref, span |-> spanToWrite])]

\* _writeSpan(id)
_writeSpan(st, id) ==
  IF ~MapHas(st.partialSpans, id)
  THEN st
  ELSE LET ref == MapGet(st.partialSpans, id)
           span == st.heap[ref]
           withEndpoint == setLocalEndpoint(span.delegate, span.localEndpoint)
           spanToWrite ==
             IF Truthy(span.endTimestamp)
             THEN setDuration(setTimestamp(withEndpoint, span.startTimestamp),
                              span.endTimestamp[1] - span.startTimestamp)
             ELSE withEndpoint
       IN [partialSpans |-> MapDelete(st.partialSpans, id),
           heap |-> [st.heap EXCEPT ![ref].delegate = spanToWrite],
           logged |-> Append(st.logged, [ref |-> ref, span |-> spanToWrite])]

\* the switch of record(rec) with a Message case that keeps only the last
\* message
updaterKeepsLastMessage(span, rec) ==
  LET a == rec.annotation
      id == rec.traceId
      kind == a.annotationType
      remote == NewEndpoint(a.serviceName, HostIpv4(a.host), a.port)
  IN CASE kind = "ClientSend" -> [span EXCEPT !.delegate = setKind(@, "CLIENT")]
       [] kind = "ClientRecv" -> finish([span EXCEPT !.delegate = setKind(@, "CLIENT")])
       [] kind = "ServerSend" -> finish([span EXCEPT !.delegate = setKind(@, "SERVER")])
       [] kind = "ServerRecv" ->
            [span EXCEPT !.delegate = setKind(setShared(@, isShared(id)), "CLIENT")]
       [] kind = "ProducerStart" -> [span EXCEPT !.delegate = setKind(@, "PRODUCER")]
       [] kind = "ProducerStop" -> finish([span EXCEPT !.delegate = setKind(@, "PRODUCER")])
       [] kind = "ConsumerStart" -> [span EXCEPT !.delegate = setKind(@, "CONSUMER")]
       [] kind = "ConsumerStop" -> finish([span EXCEPT !.delegate = setKind(@, "CONSUMER")])
       [] kind = "MessageAddr" -> [span EXCEPT !.delegate = setRemoteEndpoint(@, remote)]
       [] kind = "LocalOperationStart" -> [span EXCEPT !.delegate = setName(@, a.name)]
       [] kind = "LocalOperationStop" -> finish(span)
       [] kind = "Message" ->
            [span EXCEPT !.delegate.annotations =
                           <<[timestamp |-> rec.timestamp, value |-> a.message]>>]
       [] kind = "Rpc" -> [span EXCEPT !.delegate = setName(@, a.name)]
       [] kind = "ServiceName" ->
            [span EXCEPT !.localEndpoint.serviceName = Some(a.serviceName)]
       [] kind = "BinaryAnnotation" ->
            [span EXCEPT !.delegate = putTag(@, a.key, a.value)]
       [] kind = "LocalAddr" ->
            [span EXCEPT !.localEndpoint.ipv4 = HostIpv4(a.host),
                         !.localEndpoint.port = a.port]
       [] kind = "ServerAddr" ->
            [span EXCEPT !.delegate = setRemoteEndpoint(setKind(@, "CLIENT"), remote)]
       [] OTHER -> span

\* the switch of record(rec) with a BinaryAnnotation case that keeps the value
\* a key already has
updaterKeepsFirstTag(span, rec) ==
  LET a == rec.annotation
      id == rec.traceId
      kind == a.annotationType
      remote == NewEndpoint(a.serviceName, HostIpv4(a.host), a.port)
  IN CASE kind = "ClientSend" -> [span EXCEPT !.delegate = setKind(@, "CLIENT")]
       [] kind = "ClientRecv" -> finish([span EXCEPT !.delegate = setKind(@, "CLIENT")])
       [] kind = "ServerSend" -> finish([span EXCEPT !.delegate = setKind(@, "SERVER")])
       [] kind = "ServerRecv" ->
            [span EXCEPT !.delegate = setKind(setShared(@, isShared(id)), "CLIENT")]
       [] kind = "ProducerStart" -> [span EXCEPT !.delegate = setKind(@, "PRODUCER")]
       [] kind = "ProducerStop" -> finish([span EXCEPT !.delegate = setKind(@, "PRODUCER")])
       [] kind = "ConsumerStart" -> [span EXCEPT !.delegate = setKind(@, "CONSUMER")]
       [] kind = "ConsumerStop" -> finish([span EXCEPT !.delegate = setKind(@, "CONSUMER")])
       [] kind = "MessageAddr" -> [span EXCEPT !.delegate = setRemoteEndpoint(@, remote)]
       [] kind = "LocalOperationStart" -> [span EXCEPT !.delegate = setName(@, a.name)]
       [] kind = "LocalOperationStop" -> finish(span)
       [] kind = "Message" ->
            [span EXCEPT !.delegate = addAnnotation(@, rec.timestamp, a.message)]
       [] kind = "Rpc" -> [span EXCEPT !.delegate = setName(@, a.name)]
       [] kind = "ServiceName" ->
            [span EXCEPT !.localEndpoint.serviceName = Some(a.serviceName)]
       [] kind = "BinaryAnnotation" ->
            IF a.key \in DOMAIN span.delegate.tags
            THEN span
            ELSE [span EXCEPT !.delegate = putTag(@, a.key, a.value)]
       [] kind = "LocalAddr" ->
            [span EXCEPT !.localEndpoint.ipv4 = HostIpv4(a.host),
                         !.localEndpoint.port = a.port]
       [] kind = "ServerAddr" ->
            [span EXCEPT !.delegate = setRemoteEndpoint(setKind(@, "CLIENT"), remote)]
       [] OTHER -> span

\* the switch of record(rec) with ServerRecv setting kind SERVER
updaterServerRecvServer(span, rec) ==
  LET a == rec.annotation
      id == rec.traceId
      kind == a.annotationType
      remote == NewEndpoint(a.serviceName, HostIpv4(a.host), a.port)
  IN CASE kind = "ClientSend" -> [span EXCEPT !.delegate = setKind(@, "CLIENT")]
       [] kind = "ClientRecv" -> finish([span EXCEPT !.delegate = setKind(@, "CLIENT")])
       [] kind = "ServerSend" -> finish([span EXCEPT !.delegate = setKind(@, "SERVER")])
       [] kind = "ServerRecv" ->
            [span EXCEPT !.delegate = setKind(setShared(@, isShared(id)), "SERVER")]
       [] kind = "ProducerStart" -> [span EXCEPT !.delegate = setKind(@, "PRODUCER")]
       [] kind = "ProducerStop" -> finish([span EXCEPT !.delegate = setKind(@, "PRODUCER")])
       [] kind = "ConsumerStart" -> [span EXCEPT !.delegate = setKind(@, "CONSUMER")]
       [] kind = "ConsumerStop" -> finish([span EXCEPT !.delegate = setKind(@, "CONSUMER")])
       [] kind = "MessageAddr" -> [span EXCEPT !.delegate = setRemoteEndpoint(@, remote)]
       [] kind = "LocalOperationStart" -> [span EXCEPT !.delegate = setName(@, a.name)]
       [] kind = "LocalOperationStop" -> finish(span)
       [] kind = "Message" ->
            [span EXCEPT !.delegate = addAnnotation(@, rec.timestamp, a.message)]
       [] kind = "Rpc" -> [span EXCEPT !.delegate = setName(@, a.name)]
       [] kind = "ServiceName" ->
            [span EXCEPT !.localEndpoint.serviceName = Some(a.serviceName)]
       [] kind = "BinaryAnnotation" ->
            [span EXCEPT !.delegate = putTag(@, a.key, a.value)]
       [] kind = "LocalAddr" ->
            [span EXCEPT !.localEndpoint.ipv4 = HostIpv4(a.host),
                         !.localEndpoint.port = a.port]
       [] kind = "ServerAddr" ->
            [span EXCEPT !.delegate = setRemoteEndpoint(setKind(@, "CLIENT"), remote)]
       [] OTHER -> span

\* the switch of record(rec), applied to the PartialSpan
updater(span, rec) ==
  LET a == rec.annotation
      id == rec.traceId
      kind == a.annotationType
      remote == NewEndpoint(a.serviceName, HostIpv4(a.host), a.port)
  IN CASE kind = "ClientSend" -> [span EXCEPT !.delegate = setKind(@, "CLIENT")]
       [] kind = "ClientRecv" -> finish([span EXCEPT !.delegate = setKind(@, "CLIENT")])
       [] kind = "ServerSend" -> finish([span EXCEPT !.delegate = setKind(@, "SERVER")])
       [] kind = "ServerRecv" ->
            [span EXCEPT !.delegate = setKind(setShared(@, isShared(id)), "CLIENT")]
       [] kind = "ProducerStart" -> [span EXCEPT !.delegate = setKind(@, "PRODUCER")]
       [] kind = "ProducerStop" -> finish([span EXCEPT !.delegate = setKind(@, "PRODUCER")])
       [] kind = "ConsumerStart" -> [span EXCEPT !.delegate = setKind(@, "CONSUMER")]
       [] kind = "ConsumerStop" -> finish([span EXCEPT !.delegate = setKind(@, "CONSUMER")])
       [] kind = "MessageAddr" -> [span EXCEPT !.delegate = setRemoteEndpoint(@, remote)]
       [] kind = "LocalOperationStart" -> [span EXCEPT !.delegate = setName(@, a.name)]
       [] kind = "LocalOperationStop" -> finish(span)
       [] kind = "Message" ->
            [span EXCEPT !.delegate = addAnnotation(@, rec.timestamp, a.message)]
       [] kind = "Rpc" -> [span EXCEPT !.delegate = setName(@, a.name)]
       [] kind = "ServiceName" ->
            [span EXCEPT !.localEndpoint.serviceName = Some(a.serviceName)]
       [] kind = "BinaryAnnotation" ->
            [span EXCEPT !.delegate = putTag(@, a.key, a.value)]
       [] kind = "LocalAddr" ->
            [span EXCEPT !.localEndpoint.ipv4 = HostIpv4(a.host),
                         !.localEndpoint.port = a.port]
       [] kind = "ServerAddr" ->
            [span EXCEPT !.delegate = setRemoteEndpoint(setKind(@, "CLIENT"), remote)]
       [] OTHER -> span

\* _updateSpanMap() that stores the span also when it has written it
_updateSpanMapStoresFinished(st, id, rec) ==
  LET has == MapHas(st.partialSpans, id)
      ref == IF has THEN MapGet(st.partialSpans, id) ELSE Len(st.heap) + 1
      found == IF has THEN st.heap ELSE Append(st.heap, create(id, defaultTags))
      updated == [st EXCEPT !.heap = [found EXCEPT ![ref] = updater(@, rec)]]
      written == IF Truthy(updated.heap[ref].endTimestamp)
                 THEN _writeSpan(updated, id)
                 ELSE updated
  IN [written EXCEPT !.partialSpans = MapSet(@, id, ref)]

\* _updateSpanMap() that never looks the span up in the Map
_updateSpanMapAlwaysCreates(st, id, rec) ==
  LET ref == Len(st.heap) + 1
      updated == [st EXCEPT !.heap = Append(st.heap, updater(create(id, defaultTags), rec))]
  IN IF Truthy(updated.heap[ref].endTimestamp)
     THEN _writeSpan(updated, id)
     ELSE [updated EXCEPT !.partialSpans = MapSet(@, id, ref)]

\* _updateSpanMap(id, updater)
_updateSpanMap(st, id, rec) ==
  LET has == MapHas(st.partialSpans, id)
      ref == IF has THEN MapGet(st.partialSpans, id) ELSE Len(st.heap) + 1
      found == IF has THEN st.heap ELSE Append(st.heap, create(id, defaultTags))
      updated == [st EXCEPT !.heap = [found EXCEPT ![ref] = updater(@, rec)]]
  IN IF Truthy(updated.heap[ref].endTimestamp)
     THEN _writeSpan(updated, id)
     ELSE [updated EXCEPT !.partialSpans = MapSet(@, id, ref)]

\* _timedOut() that allows one more sweep interval
_timedOutLate(span) == span.startTimestamp + timeout + SweepInterval < now

\* _timedOut() that counts a span of age timeout as timed out
_timedOutAtTimeout(span) == span.startTimestamp + timeout <= now

\* _timedOut(span)
_timedOut(span) == span.startTimestamp + timeout < now

\* the body of the interval callback: partialSpans.forEach(...).  forEach
\* visits the entries in insertion order and skips entries deleted before
\* their turn.
RECURSIVE forEachSpan(_, _)
forEachSpan(st, keys) ==
  IF keys = <<>>
  THEN st
  ELSE LET id == Head(keys)
           visit == MapHas(st.partialSpans, id)
                      /\ _timedOut(st.heap[MapGet(st.partialSpans, id)])
       IN forEachSpan(IF visit THEN _writeSpan(st, id) ELSE st, Tail(keys))

Install(st) ==
  /\ partialSpans' = st.partialSpans
  /\ heap' = st.heap
  /\ logged' = st.logged

\* the PartialSpan a call for id works on: the Map's, or a new one
Target(id) == IF MapHas(partialSpans, id) THEN MapGet(partialSpans, id) ELSE Len(heap) + 1

\* record(rec)
Record(id, a) ==
  LET rec == [traceId |-> id, timestamp |-> now, annotation |-> a]
  IN /\ nrec < MaxRecords
     /\ hrtime <= RecordUntil
     /\ Install(_updateSpanMap(Recorder, id, rec))
     /\ nrec' = nrec + 1
     /\ recorded' = Append(recorded, [rec |-> rec, ref |-> Target(id), defaults |-> defaultTags])
     /\ UNCHANGED <<wallClock, hrtime, sinceSweep, timeout, defaultTags>>

\* setDefaultTags(tags)
SetDefaultTags(tags) ==
  /\ nrec < MaxRecords
  /\ hrtime <= RecordUntil
  /\ tags # defaultTags
  /\ defaultTags' = tags
  /\ UNCHANGED <<wallClock, hrtime, sinceSweep, timeout, partialSpans, heap, logged, nrec, recorded>>

\* the interval timer fires
Sweep ==
  /\ sinceSweep = SweepInterval
  /\ Install(forEachSpan(Recorder, MapKeys(partialSpans)))
  /\ sinceSweep' = 0
  /\ UNCHANGED <<wallClock, hrtime, timeout, defaultTags, nrec, recorded>>

\* both clocks advance by one unit; the timer fires before time passes it.
\* Time is followed while a call can still come or a span is in the Map:
\* after that no step of the recorder changes anything.
Tick ==
  /\ sinceSweep < SweepInterval
  /\ hrtime < MaxTick
  /\ hrtime < RecordUntil \/ partialSpans # <<>>
  /\ hrtime' = hrtime + 1
  /\ wallClock' = wallClock + 1
  /\ sinceSweep' = sinceSweep + 1
  /\ UNCHANGED <<timeout, defaultTags, partialSpans, heap, logged, nrec, recorded>>

\* the wall clock is set forward or backward (NTP, operator)
AdjustClock(d) ==
  /\ nrec < MaxRecords
  /\ hrtime <= RecordUntil
  /\ wallClock + d - (WallEpoch + hrtime) \in 0..MaxSkew
  /\ wallClock' = wallClock + d
  /\ UNCHANGED <<hrtime, sinceSweep, timeout, defaultTags, partialSpans, heap, logged, nrec, recorded>>

Next ==
  \/ \E id \in TraceIds, a \in Annotations : Record(id, a)
  \/ \E tags \in TagSets : SetDefaultTags(tags)
  \/ Sweep
  \/ Tick
  \/ \E d \in {0 - 1, 1} : AdjustClock(d)

Spec == Init /\ [][Next]_vars

\* record(rec) in the three-event scenarios
RecordScenario(id, a) ==
  LET rec == [traceId |-> id, timestamp |-> now, annotation |-> a]
  IN /\ nrec < MaxScenarioRecords
     /\ hrtime <= RecordUntil
     /\ Install(_updateSpanMap(Recorder, id, rec))
     /\ nrec' = nrec + 1
     /\ recorded' = Append(recorded, [rec |-> rec, ref |-> Target(id), defaults |-> defaultTags])
     /\ UNCHANGED <<wallClock, hrtime, sinceSweep, timeout, defaultTags>>

\* three calls with client and message annotations, the default tags, the
\* timer and the clocks
ScenarioNext ==
  \/ \E id \in TraceIds, a \in ScenarioAnnotations : RecordScenario(id, a)
  \/ \E tags \in TagSets : SetDefaultTags(tags)
  \/ Sweep
  \/ Tick
  \/ \E d \in {0 - 1, 1} : AdjustClock(d)

ScenarioSpec == Init /\ [][ScenarioNext]_vars

FairSpec == Spec /\ WF_vars(Tick) /\ WF_vars(Sweep)

(* ------------------------- observing a behaviour --------------------- *)

\* references the Map holds / the logger was handed
LiveRefs == { partialSpans[i][2] : i \in DOMAIN partialSpans }
LoggedRefs == { logged[i].ref : i \in DOMAIN logged }
\* the step is a record() call / a firing of the interval timer
RecordStep == nrec' = nrec + 1
SweepStep == sinceSweep = SweepInterval /\ sinceSweep' = 0
\* the step's transition set endTimestamp on PartialSpan r
FinishedInStep(r) ==
  /\ r \in DOMAIN heap'
  /\ heap'[r].endTimestamp # None
  /\ r \notin DOMAIN heap \/ heap[r].endTimestamp = None
\* the logSpan calls of the step
NewCalls == { i \in DOMAIN logged' : i > Len(logged) }
\* the PartialSpan has timed out by the wall clock
Expired(span) == wallClock - span.startTimestamp > timeout

(* ------------------------------ claims -------------------------------- *)

\* C1: record() calls that all carry the same TraceId, the last of them of a
\* terminating kind and no span flushed by the sweep: logSpan has been called
\* exactly once in total.
C1_ExactlyOneLogSpan ==
  [][(/\ RecordStep
      /\ \E r \in DOMAIN heap' : FinishedInStep(r)
      /\ \A r, q \in DOMAIN heap' : heap'[r].traceId = heap'[q].traceId
      /\ \A i \in DOMAIN logged' : logged'[i].span.timestamp # None)
     => Len(logged') = 1]_vars

\* C2: when record() sets endTimestamp on a PartialSpan, that span is handed to
\* logSpan in the same call and its TraceId has no entry left in the Map,
\* whether the PartialSpan was in the Map before or was created by the call.
C2_FinishFlushes ==
  [][\A r \in DOMAIN heap' :
       FinishedInStep(r) =>
         /\ Len(logged') = Len(logged) + 1
         /\ logged'[Len(logged')].ref = r
         /\ ~MapHas(partialSpans', heap'[r].traceId)]_vars

\* C3: every TraceId record() was called with is eventually the TraceId of a
\* span handed to logSpan, when time passes and the timer keeps firing.
C3_EventuallyReported ==
  \A id \in TraceIds :
    (\E r \in DOMAIN heap : heap[r].traceId = id)
      ~> (\E i \in DOMAIN logged : logged[i].span.traceId = id)

\* C4: a PartialSpan is handed to logSpan at most once, it leaves the Map in
\* the step that hands it over, and its span stays as logSpan received it.
C4_FlushedOnce ==
  /\ \A i, j \in DOMAIN logged : logged[i].ref = logged[j].ref => i = j
  /\ \A i \in DOMAIN logged : logged[i].ref \notin LiveRefs
  /\ \A i \in DOMAIN logged : heap[logged[i].ref].delegate = logged[i].span

\* a TraceId whose span was handed to logSpan has a new PartialSpan in the Map:
\* record() was called for it after the flush
C4_Witness ==
  \E i \in DOMAIN logged : MapHas(partialSpans, logged[i].span.traceId)

\* C5: a span flushed by a terminating event carries the PartialSpan's
\* startTimestamp as timestamp and, as duration, the monotonic time from its
\* creation to the event: never negative, whatever the wall clock did.
C5_MonotonicDuration ==
  [][RecordStep =>
       \A i \in NewCalls :
         LET call == logged'[i]
             span == heap'[call.ref]
         IN /\ call.span.timestamp = Some(span.startTimestamp)
            /\ call.span.duration = Some(hrtime - span.startTick)
            /\ call.span.duration[1] >= 0]_vars

\* the state after a terminating event (the last call, so the clock was not
\* adjusted since) whose span lasted longer than the wall clock shows
C5_Witness ==
  /\ nrec = MaxRecords
  /\ \E i \in DOMAIN logged :
       LET span == heap[logged[i].ref]
       IN /\ logged[i].span.duration = Some(hrtime - span.startTick)
          /\ hrtime - span.startTick > 0
          /\ wallClock - span.startTimestamp < hrtime - span.startTick

\* C6: the timer fires before more than one sweep interval has passed; when it
\* fires, every PartialSpan in the Map older than timeout by the wall clock is
\* handed to logSpan once and leaves the Map; a PartialSpan once handed over
\* is never in the Map or handed over again.
C6_SweptWithinInterval ==
  /\ [](sinceSweep <= SweepInterval)
  /\ [][SweepStep =>
          \A r \in LiveRefs :
            Expired(heap[r]) =>
              /\ r \notin LiveRefs'
              /\ Cardinality({ i \in NewCalls : logged'[i].ref = r }) = 1]_vars
  /\ [][\A r \in LoggedRefs :
          /\ r \notin LiveRefs'
          /\ \A i \in NewCalls : logged'[i].ref # r]_vars

\* two spans of one TraceId were flushed by the sweep: the timer has fired
\* again after the first flush
C6_Witness ==
  \E i, j \in DOMAIN logged :
    /\ i < j
    /\ logged[i].span.traceId = logged[j].span.traceId
    /\ logged[i].span.timestamp = None
    /\ logged[j].span.timestamp = None

\* C7: a span the sweep hands to logSpan has no timestamp and no duration and
\* carries the kind, name, shared flag, tags, annotations and endpoints
\* accumulated so far; a span record() hands over has timestamp and duration.
C7_TimeoutSpansUntimed ==
  [][\A i \in NewCalls :
       LET call == logged'[i]
       IN /\ SweepStep =>
               LET span == heap[call.ref]
               IN /\ call.span.timestamp = None
                  /\ call.span.duration = None
                  /\ call.span.kind = span.delegate.kind
                  /\ call.span.name = span.delegate.name
                  /\ call.span.shared = span.delegate.shared
                  /\ call.span.tags = span.delegate.tags
                  /\ call.span.annotations = span.delegate.annotations
                  /\ call.span.remoteEndpoint = span.delegate.remoteEndpoint
                  /\ call.span.localEndpoint = Some(span.localEndpoint)
          /\ RecordStep =>
               /\ call.span.timestamp # None
               /\ call.span.duration # None]_vars

\* LocalOperationStart(name = "work") with no stop, reported by the sweep
C7_Witness ==
  \E i \in DOMAIN logged :
    /\ logged[i].span.name = Some("work")
    /\ logged[i].span.timestamp = None
    /\ logged[i].span.duration = None

\* C8: record() of an annotation of no recognized kind changes nothing: the
\* Map holds the same TraceIds with the same PartialSpans, also when the
\* TraceId had no entry, and logSpan is not called.
C8_UnknownKindIgnored ==
  [][RecordStep =>
       \A id \in TraceIds :
         Record(id, [annotationType |-> "Unknown"]) =>
           /\ MapKeys(partialSpans') = MapKeys(partialSpans)
           /\ \A r \in LiveRefs : r \in LiveRefs' /\ heap'[r] = heap[r]
           /\ logged' = logged]_vars

\* C9: the Map holds at most one PartialSpan per span identity, two TraceId
\* objects of equal value being one identity.
C9_OnePerIdentity ==
  \A i, j \in DOMAIN partialSpans :
    partialSpans[i][1].spanId = partialSpans[j][1].spanId => i = j

\* the new PartialSpan shows nothing but tags: its first event wrote a tag or
\* was of no recognized kind
OnlyTagged(span) ==
  /\ span.delegate = [NewSpan(span.traceId) EXCEPT !.tags = span.delegate.tags]
  /\ span.localEndpoint = NewEndpoint(None, None, None)
  /\ span.endTimestamp = None
\* the keys on which two tag maps differ
TagDiff(t, u) ==
  { k \in DOMAIN t \cup DOMAIN u :
      k \notin DOMAIN t \/ k \notin DOMAIN u \/ t[k] # u[k] }

\* C10: a PartialSpan is created with exactly the default tags current at its
\* first event (that event, a BinaryAnnotation, may write one key on top), and
\* no later step applies default tags: setDefaultTags() changes no PartialSpan,
\* and record() changes the tags of an existing one by a BinaryAnnotation's one
\* key only.
C10_DefaultTagsAtCreation ==
  [][/\ (RecordStep /\ Len(heap') > Len(heap)) =>
          LET span == heap'[Len(heap')]
              diff == TagDiff(span.delegate.tags, defaultTags)
          IN /\ DOMAIN defaultTags \subseteq DOMAIN span.delegate.tags
             /\ diff # {} => Cardinality(diff) = 1 /\ OnlyTagged(span)
     /\ defaultTags' # defaultTags =>
          /\ partialSpans' = partialSpans
          /\ \A r \in DOMAIN heap : heap'[r] = heap[r]
     /\ \A r \in DOMAIN heap :
          LET diff == TagDiff(heap'[r].delegate.tags, heap[r].delegate.tags)
          IN diff # {} =>
               /\ RecordStep
               /\ Cardinality(diff) = 1
               /\ heap'[r] = [heap[r] EXCEPT !.delegate.tags = heap'[r].delegate.tags]]_vars

\* setDefaultTags({a: 1}), an event for T, setDefaultTags({a: 2}), an event for
\* U: T carries a = 1 and U carries a = 2
C10_Witness ==
  \E r, q \in LiveRefs :
    /\ heap[r].delegate.tags = [k \in {"a"} |-> 1]
    /\ heap[q].delegate.tags = [k \in {"a"} |-> 2]
    /\ heap[r].delegate.kind # None
    /\ heap[q].delegate.kind # None
    /\ heap[r].traceId.spanId # heap[q].traceId.spanId

\* the kinds of the record() calls so far, and whether all of them worked on
\* one PartialSpan of TraceId id
KindsRecorded == [i \in DOMAIN recorded |-> recorded[i].rec.annotation.annotationType]
OneSpanOf(id) ==
  \A i \in DOMAIN recorded :
    recorded[i].rec.traceId = id /\ recorded[i].ref = recorded[1].ref

\* the calls so far are ServerRecv then ServerSend for one shared TraceId, the
\* second finding the PartialSpan of the first in the Map
C11_Scenario ==
  /\ KindsRecorded = <<"ServerRecv", "ServerSend">>
  /\ \E id \in TraceIds : isShared(id) /\ OneSpanOf(id)

\* C11 as stated: after ServerRecv(X), ServerSend(X) with X shared, logSpan has
\* been called exactly once, with kind CLIENT, shared true, and timestamp and
\* duration set.
C11_ReportsClient ==
  C11_Scenario =>
    /\ Len(logged) = 1
    /\ logged[1].span.kind = Some("CLIENT")
    /\ logged[1].span.shared = Some(TRUE)
    /\ logged[1].span.timestamp # None
    /\ logged[1].span.duration # None

\* C11 amended: after ServerRecv(X), ServerSend(X) with X shared, logSpan has
\* been called exactly once, with kind SERVER (ServerSend's kind, the last one
\* set), shared true, and timestamp and duration set.
C11_ReportsServer ==
  C11_Scenario =>
    /\ Len(logged) = 1
    /\ logged[1].span.kind = Some("SERVER")
    /\ logged[1].span.shared = Some(TRUE)
    /\ logged[1].span.timestamp # None
    /\ logged[1].span.duration # None

\* the scenario has run and time passed between its two events
C11_Witness ==
  /\ C11_Scenario
  /\ Len(logged) = 1
  /\ logged[1].span.duration = Some(1)

\* the (event timestamp, message) pairs of the Message calls that worked on
\* PartialSpan r, in call order
RECURSIVE MessagesOn(_, _)
MessagesOn(r, calls) ==
  IF calls = <<>>
  THEN <<>>
  ELSE LET c == Head(calls)
           rest == MessagesOn(r, Tail(calls))
       IN IF c.ref = r /\ c.rec.annotation.annotationType = "Message"
          THEN <<[timestamp |-> c.rec.timestamp, value |-> c.rec.annotation.message]>> \o rest
          ELSE rest

\* C12: the annotations of a span handed to logSpan, and of a PartialSpan in
\* the Map, are exactly the (event timestamp, message) pairs of the Message
\* calls made on it, in the order record() was called.
C12_AppliedInCallOrder ==
  /\ \A i \in DOMAIN logged :
       logged[i].span.annotations = MessagesOn(logged[i].ref, recorded)
  /\ \A r \in LiveRefs :
       heap[r].delegate.annotations = MessagesOn(r, recorded)

\* ClientSend(X), Message(X, "retry"), ClientRecv(X) on one PartialSpan, time
\* passing after the message: one span of kind CLIENT reported, its one
\* annotation "retry" at the time of its event
C12_Witness ==
  /\ KindsRecorded = <<"ClientSend", "Message", "ClientRecv">>
  /\ \E id \in TraceIds : OneSpanOf(id)
  /\ Len(logged) = 1
  /\ logged[1].span.kind = Some("CLIENT")
  /\ logged[1].span.timestamp # None
  /\ logged[1].span.annotations = <<[timestamp |-> recorded[2].rec.timestamp, value |-> "retry"]>>
  /\ recorded[2].rec.timestamp < recorded[3].rec.timestamp

\* two messages on one PartialSpan, reported by the sweep in call order
C12_WitnessTwoMessages ==
  \E i \in DOMAIN logged :
    /\ Len(logged[i].span.annotations) = 2
    /\ logged[i].span.annotations[1].value = "retry"
    /\ logged[i].span.annotations[2].value = "again"
    /\ logged[i].span.annotations[1].timestamp < logged[i].span.annotations[2].timestamp

\* the BinaryAnnotation calls that worked on PartialSpan r with the key
TagCalls(r, key) ==
  { i \in DOMAIN recorded :
      /\ recorded[i].ref = r
      /\ recorded[i].rec.annotation.annotationType = "BinaryAnnotation"
      /\ recorded[i].rec.annotation.key = key }
\* the default tags when PartialSpan r was created: at the first call on it
DefaultsOf(r) ==
  recorded[CHOOSE i \in DOMAIN recorded :
             recorded[i].ref = r /\ \A j \in 1..(i - 1) : recorded[j].ref # r].defaults
TagKeys == {"a", "b"}

\* C13: the tags of a span handed to logSpan, and of a PartialSpan in the Map,
\* have as keys the default tags' keys at its creation and the keys of the
\* BinaryAnnotation calls made on it; each key carries the value of the last
\* such call for the key, or the default value when there was none.
C13_LastTagWins ==
  \A r \in LoggedRefs \cup LiveRefs :
    LET tags == heap[r].delegate.tags
        defaults == DefaultsOf(r)
    IN /\ DOMAIN tags = DOMAIN defaults \cup { k \in TagKeys : TagCalls(r, k) # {} }
       /\ \A k \in DOMAIN tags :
            LET calls == TagCalls(r, k)
                last == CHOOSE i \in calls : \A j \in calls : j <= i
            IN tags[k] = IF calls = {} THEN defaults[k] ELSE recorded[last].rec.annotation.value
       /\ \A i \in DOMAIN logged : logged[i].ref = r => logged[i].span.tags = tags

\* a span created with default tag a = 1, then BinaryAnnotation(a, 1) and
\* BinaryAnnotation(a, 2) on it, reported by the sweep with a = 2
C13_Witness ==
  \E i \in DOMAIN logged :
    LET r == logged[i].ref
    IN /\ DefaultsOf(r) = [k \in {"a"} |-> 1]
       /\ TagCalls(r, "a") = {1, 2}
       /\ recorded[1].rec.annotation.value = 1
       /\ recorded[2].rec.annotation.value = 2
       /\ logged[i].span.tags = [k \in {"a"} |-> 2]

\* the step is a record() call that asks for the flush of a TraceId with no
\* entry in the Map: the call created the PartialSpan and finished it
FlushOfAbsent ==
  /\ RecordStep
  /\ Len(heap') > Len(heap)
  /\ heap'[Len(heap')].endTimestamp # None

\* C14: _writeSpan(id) for a TraceId with no entry in the Map returns with the
\* Map, the PartialSpans and the logSpan calls as they were; the one place that
\* asks for such a flush, record() finishing a span it has just created, leaves
\* the Map and the logSpan calls unchanged.
C14_FlushOfAbsentNoOp ==
  [][/\ \A id \in TraceIds :
          ~MapHas(partialSpans, id) => _writeSpan(Recorder, id) = Recorder
     /\ FlushOfAbsent => logged' = logged /\ partialSpans' = partialSpans]_vars

\* a flush was asked for a TraceId with no entry while another span was in
\* the Map: the new PartialSpan has endTimestamp and was not handed over
C14_Witness ==
  /\ partialSpans # <<>>
  /\ \E r \in DOMAIN heap :
       /\ heap[r].endTimestamp # None
       /\ r \notin LoggedRefs
       /\ \E q \in LiveRefs : q < r

\* C15: finish() on a PartialSpan whose endTimestamp is set changes nothing,
\* at whatever later time it is called, and no step of the recorder changes an
\* endTimestamp once set.
C15_FinishIdempotent ==
  /\ [](\A r \in DOMAIN heap :
          heap[r].endTimestamp # None => finish(heap[r]) = heap[r])
  /\ [][\A r \in DOMAIN heap :
          heap[r].endTimestamp # None => heap'[r].endTimestamp = heap[r].endTimestamp]_vars

\* a finished PartialSpan, two time units after its endTimestamp was set, and
\* the wall clock ahead of the monotonic time elapsed
C15_Witness ==
  \E r \in DOMAIN heap :
    /\ heap[r].endTimestamp # None
    /\ nowSince(heap[r].startTimestamp, heap[r].startTick) >= heap[r].endTimestamp[1] + 2
    /\ now > nowSince(heap[r].startTimestamp, heap[r].startTick)

\* C16: when the timer fires, the Map keeps exactly its entries whose
\* PartialSpan is not older than timeout by the wall clock, in their order and
\* unchanged, and logSpan is called once for each of the others, in the Map's
\* order, and for nothing else.
C16_SweepFlushesExpired ==
  [][SweepStep =>
       LET expired == SelectSeq(partialSpans, LAMBDA e : Expired(heap[e[2]]))
           kept == SelectSeq(partialSpans, LAMBDA e : ~Expired(heap[e[2]]))
       IN /\ partialSpans' = kept
          /\ \A i \in DOMAIN kept : heap'[kept[i][2]] = heap[kept[i][2]]
          /\ Len(logged') = Len(logged) + Len(expired)
          /\ \A i \in DOMAIN expired : logged'[Len(logged) + i].ref = expired[i][2]
          /\ \A i \in DOMAIN logged : logged'[i] = logged[i]]_vars

\* the timer has just fired: it flushed two PartialSpans created at the same
\* instant and kept a third whose age is exactly timeout
C16_Witness ==
  /\ sinceSweep = 0
  /\ \E i, j \in DOMAIN logged :
       /\ j = i + 1
       /\ logged[i].span.timestamp = None
       /\ logged[j].span.timestamp = None
       /\ heap[logged[i].ref].startTick = heap[logged[j].ref].startTick
       /\ heap[logged[i].ref].startTimestamp = heap[logged[j].ref].startTimestamp
  /\ \E q \in LiveRefs :
       /\ heap[q].startTick < hrtime
       /\ wallClock - heap[q].startTimestamp = timeout

\* the transition table's kind-setting annotation types and their kinds
KindOf ==
  [ClientSend |-> "CLIENT", ClientRecv |-> "CLIENT", ServerRecv |-> "CLIENT",
   ServerAddr |-> "CLIENT", ServerSend |-> "SERVER", ProducerStart |-> "PRODUCER",
   ProducerStop |-> "PRODUCER", ConsumerStart |-> "CONSUMER", ConsumerStop |-> "CONSUMER"]
\* the calls on PartialSpan r of a kind-setting type / of type ServerRecv
KindCalls(r) ==
  { i \in DOMAIN recorded :
      recorded[i].ref = r /\ KindsRecorded[i] \in DOMAIN KindOf }
ServerRecvCalls(r) ==
  { i \in DOMAIN recorded : recorded[i].ref = r /\ KindsRecorded[i] = "ServerRecv" }

\* C17: the kind of every PartialSpan's span is the table's kind of the last
\* kind-setting call made on it, and unset when there was none; shared is
\* traceId.isShared() when a ServerRecv call was made on it, and unset
\* otherwise; a span handed to logSpan carries the same kind and shared flag.
C17_KindOfLastEvent ==
  /\ \A r \in DOMAIN heap :
       LET calls == KindCalls(r)
           last == CHOOSE i \in calls : \A j \in calls : j <= i
       IN /\ heap[r].delegate.kind =
               IF calls = {} THEN None ELSE Some(KindOf[KindsRecorded[last]])
          /\ heap[r].delegate.shared =
               IF ServerRecvCalls(r) = {} THEN None ELSE Some(isShared(heap[r].traceId))
  /\ \A i \in DOMAIN logged :
       /\ logged[i].span.kind = heap[logged[i].ref].delegate.kind
       /\ logged[i].span.shared = heap[logged[i].ref].delegate.shared

\* ServerRecv then LocalOperationStart on one PartialSpan of an unshared
\* TraceId, reported by the sweep: kind CLIENT, shared false
C17_Witness ==
  /\ KindsRecorded = <<"ServerRecv", "LocalOperationStart">>
  /\ \E id \in TraceIds : ~isShared(id) /\ OneSpanOf(id)
  /\ Len(logged) = 1
  /\ logged[1].span.kind = Some("CLIENT")
  /\ logged[1].span.shared = Some(FALSE)

\* C18: no PartialSpan in the Map has endTimestamp set, in any state: after
\* every record() call and every firing of the timer.
C18_NoFinishedInMap ==
  \A r \in LiveRefs : heap[r].endTimestamp = None

\* a PartialSpan that was in the Map has got its terminating event: it has
\* endTimestamp, was handed to logSpan and is out of the Map
C18_Witness ==
  \E r \in LoggedRefs :
    /\ heap[r].endTimestamp # None
    /\ Cardinality({ i \in DOMAIN recorded : recorded[i].ref = r }) = 2
    /\ r \notin LiveRefs

\* the TraceId of the step's record() call
CalledId == recorded'[Len(recorded')].rec.traceId
\* the Map's entries of the other TraceIds, in the Map's order
OtherEntries(m, id) == SelectSeq(m, LAMBDA e : e[1] # id)

\* C19: a record() call for TraceId X leaves every other TraceId's entry in
\* the Map, in its place relative to the others, with its PartialSpan (span,
\* local endpoint, startTimestamp) unchanged; it calls logSpan for no other
\* TraceId; it leaves the default tags as they are.
C19_OtherTracesUntouched ==
  [][RecordStep =>
       /\ OtherEntries(partialSpans', CalledId) = OtherEntries(partialSpans, CalledId)
       /\ \A i \in DOMAIN partialSpans :
            partialSpans[i][1] # CalledId => heap'[partialSpans[i][2]] = heap[partialSpans[i][2]]
       /\ \A i \in NewCalls : logged'[i].span.traceId = CalledId
       /\ \A i \in DOMAIN logged : logged'[i] = logged[i]
       /\ defaultTags' = defaultTags]_vars

\* X's terminating event has flushed X's PartialSpan while Y's, created
\* before it, is still in the Map
C19_Witness ==
  \E r \in LoggedRefs, q \in LiveRefs :
    /\ q < r
    /\ heap[r].endTimestamp # None
    /\ heap[r].traceId.spanId # heap[q].traceId.spanId
    /\ recorded[Len(recorded)].ref = r

\* the earlier record() calls with TraceId id
CallsFor(id) == { i \in DOMAIN recorded : recorded[i].rec.traceId = id }
\* the step is a record() call for a TraceId whose PartialSpan, the one its
\* last call worked on, has been handed to logSpan
RecordAfterFlush ==
  /\ RecordStep
  /\ CallsFor(CalledId) # {}
  /\ LET calls == CallsFor(CalledId)
         last == CHOOSE i \in calls : \A j \in calls : j <= i
     IN recorded[last].ref \in LoggedRefs
\* a PartialSpan as the constructor and create() leave it in this state
Fresh(id) ==
  [traceId |-> id, startTimestamp |-> wallClock, startTick |-> hrtime,
   endTimestamp |-> None, localEndpoint |-> NewEndpoint(None, None, None),
   delegate |-> [NewSpan(id) EXCEPT !.tags = defaultTags]]

\* C20: a record() call for a TraceId whose PartialSpan was handed to logSpan
\* creates a new PartialSpan: the call's event applied to one with the clocks
\* of the call, the current default tags and nothing else; the flushed one is
\* unchanged.  The timer flushes a PartialSpan by its own startTimestamp, and
\* no step changes the startTimestamp or startTick of a PartialSpan.
C20_FreshAfterFlush ==
  [][/\ RecordAfterFlush =>
          LET call == recorded'[Len(recorded')]
          IN /\ Len(heap') = Len(heap) + 1
             /\ call.ref = Len(heap')
             /\ heap'[call.ref] = updater(Fresh(CalledId), call.rec)
             /\ \A r \in DOMAIN heap : heap'[r] = heap[r]
             /\ heap'[call.ref].endTimestamp = None =>
                  MapGet(partialSpans', CalledId) = call.ref
     /\ SweepStep =>
          \A r \in LiveRefs :
            r \in LiveRefs' <=> wallClock - heap[r].startTimestamp <= timeout
     /\ \A r \in DOMAIN heap :
          /\ heap'[r].startTimestamp = heap[r].startTimestamp
          /\ heap'[r].startTick = heap[r].startTick]_vars

\* a PartialSpan flushed by its terminating event and a later one of the same
\* TraceId, created by a Message after the default tags changed: it carries
\* the new tags and its message only, and has outlived a firing of the timer
\* at which the first one's age was past timeout
C20_Witness ==
  \E r \in LoggedRefs, q \in LiveRefs :
    /\ r < q
    /\ heap[r].traceId = heap[q].traceId
    /\ heap[r].endTimestamp # None
    /\ heap[r].delegate.kind = Some("CLIENT")
    /\ heap[r].delegate.tags = <<>>
    /\ heap[q].delegate.kind = None
    /\ heap[q].delegate.tags = [k \in {"a"} |-> 1]
    /\ Len(heap[q].delegate.annotations) = 1
    /\ heap[q].startTimestamp > heap[r].startTimestamp
    /\ sinceSweep = 0
    /\ heap[q].startTick < hrtime
    /\ wallClock - heap[r].startTimestamp > timeout

====
